---- MODULE Spec2Model ----
(***************************************************************************)
(* Verification model of the BOM comparison platform (client version).     *)
(*                                                                         *)
(* The repository ships the React client (Processing page, useWebSocket    *)
(* hook, workflow store, Upload / Results / Dashboard pages).  The backend *)
(* (workflow orchestrator and notification channel) is not part of the     *)
(* shipped sources; it is modelled from its written contract and every     *)
(* definition that does so is marked as such in the model map.             *)
(***************************************************************************)
EXTENDS Integers, Sequences, FiniteSets, TLC

(***************************************************************************)
(* Bounds of the model.                                                    *)
(***************************************************************************)
MaxConn == 2
MaxSockets == 2
MaxFetches == 2
MaxNavTimers == 1
MaxMatches == 2

Workflows == {"W1", "W2"}
Conns == 1..MaxConn
FailureMessages == {"ai_timeout"}
Sockets == 1..MaxSockets
Fetches == 1..MaxFetches

\* the workflow the Processing page is opened on (useParams)
workflowId == "W1"

VARIABLES
  \* ---- backend: workflow orchestrator ----
  wf,          \* workflow id -> status record
  started,     \* workflow id -> sequence of the stages started so far
  finished,    \* workflow id -> sequence of the stages that succeeded
  failure,     \* workflow id -> <<>> or <<stage, message>> of the failed stage
  \* ---- backend: notification channel ----
  registry,    \* connection ids the channel holds
  alive,       \* connection ids whose transport is still open
  subs,        \* connection id -> set of workflow ids it subscribed to
  lastPub,     \* the publish made by the step just taken: workflow, snapshot,
               \* the connections it was delivered to and those it dropped
  \* ---- client: useWebSocket hook of the Processing page ----
  sock,          \* socket -> "none", "connecting", "open", "closing",
                 \*           "aborting" (closed while connecting), "closed"
  wsCurrent,     \* ws.current: 0 (null) or the socket the ref holds
  timerRef,      \* the timer held in reconnectTimeoutRef.current is pending
  orphanTimers,  \* pending reconnect timers the ref no longer holds
  attempts,      \* reconnectAttemptsRef.current
  isConnected,   \* useState isConnected
  wsError,       \* useState error: "null" or "failed"
  subscribeSent, \* sockets over which a subscribe_workflow frame was sent
  lastMessage,   \* useState lastMessage: NoMessage or the last parsed frame
  lastFrame,     \* the last call of ws.onmessage: the number of calls so
                 \* far modulo 2, whether event.data was JSON text and
                 \* whether the call invoked onMessage
  \* ---- client: Processing page ----
  workflow,      \* useState workflow (NoWorkflow is null)
  loading,       \* useState loading
  dirty,         \* a state change is waiting for the next render
  committed,     \* the page has been rendered and its effects have run once
  effConnected,  \* isConnected as of the last run of the page effect
  mounted,       \* the page is mounted (navigation unmounts it)
  navCauses,     \* <<"fetch" or "push", status>> of the reports that made
                 \* the page call navigate
  navTimers,     \* pending setTimeout(navigate, 2000) timers, each with the
                 \* status of the pushed update that set it
  fetches,       \* status request -> its state and response
  \* ---- client: workflow store (WorkflowProvider) ----
  store,
  \* ---- client: Dashboard ----
  recentWorkflows, \* useState recentWorkflows
  recentLinks,     \* the link rendered for each entry of recentWorkflows
  \* ---- client: Upload page ----
  qaDocument,    \* useState qaDocument: "null" or the selected file's name
  supplierBom,   \* useState supplierBom: "null" or the selected file's name
  toast,         \* the toast the last handler call raised
  lastSelect,    \* the last file handed to a select handler, with the
                 \* selection that handler found
  uploading,     \* useState uploading
  upload,        \* the POST /api/upload request of handleStartProcessing
  uploadNav,     \* "null" or the workflow id of navigate(`/processing/${id}`)
  created,       \* backend: workflow ids created by an upload
  \* ---- client: Results page ----
  results,       \* useState results: NoResults or the fetched result set
  resLoading,    \* useState loading of the Results page
  filterRAG,     \* useState filterRAG
  resultsReq,    \* the GET /api/results request of loadResults
  apiCalls,      \* number of API requests the Results page has issued
  csvContent     \* <<"null">> (no export yet) or the text of the last CSV
                 \* export

orchVars == <<wf, started, finished, failure>>
chanVars == <<registry, alive, subs, lastPub>>
hookVars == <<sock, wsCurrent, timerRef, orphanTimers, attempts, isConnected,
              wsError, subscribeSent, lastMessage, lastFrame>>
pageVars == <<workflow, loading, dirty, committed, effConnected, mounted,
              navCauses, navTimers>>
dashVars == <<recentWorkflows, recentLinks>>
uploadVars == <<qaDocument, supplierBom, toast, lastSelect, uploading, upload,
                uploadNav, created>>
resultVars == <<results, resLoading, filterRAG, resultsReq, apiCalls, csvContent>>
uploadRest == <<qaDocument, supplierBom, lastSelect, uploading, upload,
                uploadNav, created>>
clientVars == <<hookVars, pageVars, fetches, store, dashVars, uploadVars,
                resultVars>>
vars == <<orchVars, chanVars, clientVars>>

(***************************************************************************)
(* Workflow orchestrator.                                                  *)
(***************************************************************************)
StageOrder == <<"translation", "extraction", "supplier_bom", "comparison">>

StageIndex(s) == CHOOSE i \in 1..Len(StageOrder) : StageOrder[i] = s

\* [mutant] progress counts the stage that has only just been started
ProgressAfterEager(i) == 25 * (i + 1)

\* progress reported once i stages have succeeded
ProgressAfter(i) == 25 * i

NewWorkflow ==
  [status |-> "initialized", current_stage |-> "translation",
   progress |-> 0, message |-> ""]

\* [mutant] the orchestrator goes on after a failed stage
CanRunAfterError(w) == wf[w].status \in {"processing", "error"}

\* the orchestrator works on a workflow only while it is processing
CanRun(w) == wf[w].status = "processing"

\* [mutant] the stage after the next one is started, skipping a stage
NextStageSkips(s) ==
  StageOrder[IF StageIndex(s) + 2 <= Len(StageOrder)
             THEN StageIndex(s) + 2 ELSE Len(StageOrder)]

\* the stage the orchestrator starts after stage s has succeeded
NextStage(s) == StageOrder[StageIndex(s) + 1]

Snapshot(w, rec) ==
  [type |-> "autonomous_workflow_update", workflow_id |-> w,
   status |-> rec.status, progress |-> rec.progress,
   current_stage |-> rec.current_stage, message |-> rec.message]

\* [mutant] a publish is broadcast to every registered connection
EveryConnection(w) == registry

\* connections a publish for w is addressed to
Subscribers(w) == {c \in registry : w \in subs[c]}

\* [mutant] the send to the first dead subscriber raises and aborts the
\* delivery loop: later subscribers get nothing and nothing is cleaned up
PublishAbortsOnDead(w, rec) ==
  LET targets == Subscribers(w)
      dead == targets \ alive
      live == {c \in targets \cap alive : \A d \in dead : c < d}
  IN /\ lastPub' = [w |-> w, msg |-> Snapshot(w, rec),
                    received |-> live, dropped |-> {}]
     /\ UNCHANGED <<registry, alive, subs>>

Publish(w, rec) ==
  LET targets == Subscribers(w)
      live == targets \cap alive
      dead == targets \ alive
  IN /\ registry' = registry \ dead
     /\ subs' = [c \in Conns |-> IF c \in dead THEN {} ELSE subs[c]]
     /\ lastPub' = [w |-> w, msg |-> Snapshot(w, rec),
                    received |-> live, dropped |-> dead]
     /\ UNCHANGED alive

Update(w, rec) ==
  /\ wf' = [wf EXCEPT ![w] = rec]
  /\ Publish(w, rec)

BeginWorkflow(w) ==
  /\ wf[w].status = "initialized"
  /\ Update(w, [status |-> "processing", current_stage |-> StageOrder[1],
                progress |-> ProgressAfter(0), message |-> "processing"])
  /\ started' = [started EXCEPT ![w] = Append(@, StageOrder[1])]
  /\ UNCHANGED <<finished, failure, clientVars>>

StageSucceeds(w) ==
  /\ CanRun(w)
  /\ LET s == wf[w].current_stage
         n == Len(finished[w]) + 1
     IN /\ finished' = [finished EXCEPT ![w] = Append(@, s)]
        /\ IF StageIndex(s) < Len(StageOrder)
           THEN /\ Update(w, [status |-> "processing",
                              current_stage |-> NextStage(s),
                              progress |-> ProgressAfter(n),
                              message |-> "processing"])
                /\ started' = [started EXCEPT ![w] = Append(@, NextStage(s))]
           ELSE /\ Update(w, [status |-> "completed", current_stage |-> s,
                              progress |-> ProgressAfter(n),
                              message |-> "completed"])
                /\ UNCHANGED started
  /\ UNCHANGED <<failure, clientVars>>

StageFails(w, m) ==
  /\ CanRun(w)
  /\ failure' = [failure EXCEPT ![w] = <<wf[w].current_stage, m>>]
  /\ Update(w, [wf[w] EXCEPT !.status = "error", !.message = m])
  /\ UNCHANGED <<started, finished, clientVars>>

NoPublish == [w |-> "", msg |-> <<>>, received |-> {}, dropped |-> {}]

(***************************************************************************)
(* Notification channel.                                                   *)
(***************************************************************************)
Connect(c) ==
  /\ c \notin registry
  /\ c \notin alive
  /\ registry' = registry \cup {c}
  /\ alive' = alive \cup {c}
  /\ subs' = [subs EXCEPT ![c] = {}]
  /\ lastPub' = NoPublish
  /\ UNCHANGED <<orchVars, clientVars>>

Subscribe(c, w) ==
  /\ c \in registry
  /\ c \in alive
  /\ w \notin subs[c]
  /\ subs' = [subs EXCEPT ![c] = @ \cup {w}]
  /\ lastPub' = NoPublish
  /\ UNCHANGED <<registry, alive, orchVars, clientVars>>

\* the client side of a connection goes away; the channel has not noticed yet
ConnectionDies(c) ==
  /\ c \in alive
  /\ alive' = alive \ {c}
  /\ lastPub' = NoPublish
  /\ UNCHANGED <<registry, subs, orchVars, clientVars>>

\* the channel detects the closed connection and deregisters it
Disconnect(c) ==
  /\ c \in registry
  /\ c \notin alive
  /\ registry' = registry \ {c}
  /\ subs' = [subs EXCEPT ![c] = {}]
  /\ lastPub' = NoPublish
  /\ UNCHANGED <<alive, orchVars, clientVars>>

(***************************************************************************)
(* Status endpoint: GET /api/status/{workflow_id}.                         *)
(***************************************************************************)
\* the Workflow snapshot the endpoint returns (timestamps are left out)
StatusData(w) ==
  [workflow_id |-> w, status |-> wf[w].status, progress |-> wf[w].progress,
   current_stage |-> wf[w].current_stage, message |-> wf[w].message]

NoFetch == [st |-> "none"]

\* the server answers a pending status request with the record as it is now
ServeStatus(f) ==
  /\ fetches[f].st = "requested"
  /\ fetches' = [fetches EXCEPT ![f] = [st |-> "responded",
                                        data |-> StatusData(workflowId)]]
  /\ UNCHANGED <<orchVars, chanVars, hookVars, pageVars, store, dashVars,
                 uploadVars, resultVars>>

\* the request fails (network error, timeout, error status)
StatusRequestFails(f) ==
  /\ fetches[f].st = "requested"
  /\ fetches' = [fetches EXCEPT ![f] = [st |-> "failed"]]
  /\ UNCHANGED <<orchVars, chanVars, hookVars, pageVars, store, dashVars,
                 uploadVars, resultVars>>

(***************************************************************************)
(* Workflow store (useWorkflow: workflowReducer).                          *)
(***************************************************************************)
initialState ==
  [workflows |-> <<>>, currentWorkflowId |-> "null", agentStats |-> "null",
   loading |-> FALSE, error |-> "null"]

SpreadNewOnly(old, new) == new

\* { ...old, ...new }
Spread(old, new) ==
  [k \in (DOMAIN old) \cup (DOMAIN new) |->
     IF k \in DOMAIN new THEN new[k] ELSE old[k]]

WorkflowsMapByStatus(list) ==
  [st \in {list[i].status : i \in 1..Len(list)} |->
     list[CHOOSE i \in 1..Len(list) : list[i].status = st]]

\* the map SET_WORKFLOWS builds: later entries of the list win
WorkflowsMap(list) ==
  LET ids == {list[i].workflow_id : i \in 1..Len(list)}
      lastOf(id) == CHOOSE i \in 1..Len(list) :
                      /\ list[i].workflow_id = id
                      /\ \A j \in 1..Len(list) :
                           list[j].workflow_id = id => j <= i
  IN [id \in ids |-> list[lastOf(id)]]

workflowReducer(state, action) ==
  CASE action.type = "SET_LOADING" ->
         [state EXCEPT !.loading = action.payload]
    [] action.type = "SET_ERROR" ->
         [state EXCEPT !.error = action.payload, !.loading = FALSE]
    [] action.type = "CLEAR_ERROR" ->
         [state EXCEPT !.error = "null"]
    [] action.type = "SET_CURRENT_WORKFLOW" ->
         [state EXCEPT !.currentWorkflowId = action.payload]
    [] action.type = "UPDATE_WORKFLOW" ->
         LET id == action.payload.workflow_id
             old == IF id \in DOMAIN state.workflows
                    THEN state.workflows[id] ELSE <<>>
         IN [state EXCEPT !.workflows =
               [k \in (DOMAIN state.workflows) \cup {id} |->
                  IF k = id THEN Spread(old, action.payload)
                  ELSE state.workflows[k]]]
    [] action.type = "SET_WORKFLOWS" ->
         [state EXCEPT !.workflows = WorkflowsMap(action.payload)]
    [] action.type = "SET_AGENT_STATS" ->
         [state EXCEPT !.agentStats = action.payload]
    [] OTHER -> state

updateWorkflow(state, workflowData) ==
  workflowReducer(state, [type |-> "UPDATE_WORKFLOW", payload |-> workflowData])

\* the workflow ids the store is exercised with
StoreWorkflowIds == {"W1", "W2"}

\* payloads of updateWorkflow: a status response, the object built from a
\* pushed update, and partial objects
UpdatePayloads ==
  {[workflow_id |-> w, status |-> "processing", progress |-> 50,
    current_stage |-> "supplier_bom", message |-> "processing",
    created_at |-> 1] : w \in StoreWorkflowIds}
    \cup {[workflow_id |-> w, status |-> "completed", progress |-> 100,
           current_stage |-> "comparison", message |-> "completed"] :
             w \in StoreWorkflowIds}
    \cup {[workflow_id |-> w, status |-> "error"] : w \in StoreWorkflowIds}

\* payloads of setWorkflows: lists of workflow records as the server lists
\* them, one of them naming a workflow twice
WorkflowLists ==
  LET rec(w, st) == [workflow_id |-> w, status |-> st, created_at |-> 2]
  IN {<<>>, <<rec("W1", "completed")>>,
      <<rec("W1", "processing"), rec("W2", "completed")>>,
      <<rec("W2", "processing"), rec("W2", "error")>>}

\* the actions of WORKFLOW_ACTIONS with their payloads, and one action whose
\* type the reducer does not know
StoreActions ==
  {[type |-> "SET_LOADING", payload |-> b] : b \in BOOLEAN}
    \cup {[type |-> "SET_ERROR", payload |-> "Upload failed"],
          [type |-> "CLEAR_ERROR"],
          [type |-> "SET_AGENT_STATS", payload |-> "stats"],
          [type |-> "RESET"]}
    \cup {[type |-> "SET_CURRENT_WORKFLOW", payload |-> w] :
             w \in StoreWorkflowIds}
    \cup {[type |-> "UPDATE_WORKFLOW", payload |-> d] : d \in UpdatePayloads}
    \cup {[type |-> "SET_WORKFLOWS", payload |-> l] : l \in WorkflowLists}

\* dispatch of useReducer(workflowReducer, initialState)
dispatch(action) ==
  /\ store' = workflowReducer(store, action)
  /\ UNCHANGED <<orchVars, chanVars, hookVars, pageVars, fetches, dashVars,
                 uploadVars, resultVars>>

(***************************************************************************)
(* useWebSocket hook, as the Processing page uses it.                      *)
(*                                                                         *)
(* The page hands the hook an inline onMessage function, so connect (a     *)
(* useCallback over [clientId, onMessage]) is a new function on every      *)
(* render and the hook's connect effect is torn down and run again on      *)
(* every render of the page.                                               *)
(***************************************************************************)
MaxReconnectAttempts == 5

\* the client identifier the page hands to the hook: `client_${workflowId}`
clientId == <<"client_", workflowId>>

\* the client identifier in the URL of socket s: every connect() of the
\* hook builds wsUrl from the same clientId
ClientIdOf(s) == clientId

Created == Cardinality({s \in Sockets : sock[s] # "none"})

\* ws.close()
CloseSocket(sk, s) ==
  IF s = 0 THEN sk
  ELSE IF sk[s] = "open" THEN [sk EXCEPT ![s] = "closing"]
  ELSE IF sk[s] = "connecting" THEN [sk EXCEPT ![s] = "aborting"]
  ELSE sk

\* connect(): ws.current = new WebSocket(wsUrl)
NewSocket(sk) == CHOOSE s \in Sockets : sk[s] = "none" /\ \A t \in Sockets : t < s => sk[t] # "none"

\* sendMessage: the frame goes out only if ws.current is OPEN
sendMessage(sk, cur, sent) ==
  IF cur # 0 /\ sk[cur] = "open" THEN sent \cup {cur} ELSE sent

\* ws.onopen
WsOpens(s) ==
  /\ sock[s] = "connecting"
  /\ sock' = [sock EXCEPT ![s] = "open"]
  /\ attempts' = 0
  /\ IF mounted
     THEN /\ isConnected' = TRUE
          /\ wsError' = "null"
          /\ dirty' = (dirty \/ ~isConnected \/ wsError # "null")
     ELSE UNCHANGED <<isConnected, wsError, dirty>>
  /\ UNCHANGED <<wsCurrent, timerRef, orphanTimers, subscribeSent,
                 lastMessage, lastFrame, workflow, loading, committed,
                 effConnected, mounted, navCauses, navTimers, fetches, store,
                 dashVars, uploadVars, resultVars, orchVars, chanVars>>

\* ws.onclose: setIsConnected(false), then the reconnect timer
OnClose(err) ==
  /\ IF mounted
     THEN /\ isConnected' = FALSE
          /\ wsError' = err
          /\ dirty' = (dirty \/ isConnected \/ wsError # err)
     ELSE UNCHANGED <<isConnected, wsError, dirty>>
  /\ IF attempts < MaxReconnectAttempts
     THEN /\ timerRef' = TRUE
          /\ orphanTimers' = IF timerRef THEN orphanTimers + 1 ELSE orphanTimers
     ELSE UNCHANGED <<timerRef, orphanTimers>>

\* an open socket, or one the client closed, is closed: close event
WsCloses(s) ==
  /\ sock[s] \in {"open", "closing"}
  /\ sock' = [sock EXCEPT ![s] = "closed"]
  /\ OnClose(wsError)
  /\ UNCHANGED <<wsCurrent, attempts, subscribeSent, lastMessage, lastFrame,
                 workflow, loading, committed, effConnected, mounted,
                 navCauses, navTimers, fetches, store, dashVars, uploadVars,
                 resultVars, orchVars, chanVars>>

\* a connection that was never established fails: error event, close event
WsFails(s) ==
  /\ sock[s] \in {"connecting", "aborting"}
  /\ sock' = [sock EXCEPT ![s] = "closed"]
  /\ OnClose("failed")
  /\ UNCHANGED <<wsCurrent, attempts, subscribeSent, lastMessage, lastFrame,
                 workflow, loading, committed, effConnected, mounted,
                 navCauses, navTimers, fetches, store, dashVars, uploadVars,
                 resultVars, orchVars, chanVars>>

\* the reconnect timer of onclose fires: attempts += 1; connect()
ReconnectTimerFires ==
  /\ timerRef \/ orphanTimers > 0
  /\ Created < MaxSockets
  /\ \/ timerRef /\ timerRef' = FALSE /\ UNCHANGED orphanTimers
     \/ orphanTimers > 0 /\ orphanTimers' = orphanTimers - 1 /\ UNCHANGED timerRef
  /\ attempts' = attempts + 1
  /\ sock' = [sock EXCEPT ![NewSocket(sock)] = "connecting"]
  /\ wsCurrent' = NewSocket(sock)
  /\ UNCHANGED <<isConnected, wsError, subscribeSent, lastMessage, lastFrame,
                 pageVars, fetches, store, dashVars, uploadVars, resultVars,
                 orchVars, chanVars>>

(***************************************************************************)
(* Processing page.                                                        *)
(***************************************************************************)
NoWorkflow == [workflow_id |-> "null"]

stages == <<"translation", "extraction", "supplier_bom", "comparison">>

\* stages.findIndex(s => s.key === key), 0-based, -1 when absent
findIndex(key) ==
  IF \E i \in 1..Len(stages) : stages[i] = key
  THEN (CHOOSE i \in 1..Len(stages) : stages[i] = key) - 1
  ELSE -1

getStageStatusInclusive(stageKey) ==
  IF workflow = NoWorkflow THEN "idle"
  ELSE IF workflow.status = "error" THEN "error"
  ELSE IF workflow.status = "completed" THEN "completed"
  ELSE IF findIndex(stageKey) <= findIndex(workflow.current_stage)
       THEN "completed"
  ELSE "idle"

\* getStageStatus of the page, read off the workflow state of the render
getStageStatus(stageKey) ==
  IF workflow = NoWorkflow THEN "idle"
  ELSE LET currentStageIndex == findIndex(workflow.current_stage)
           stageIndex == findIndex(stageKey)
       IN IF workflow.status = "error" THEN "error"
          ELSE IF workflow.status = "completed" THEN "completed"
          ELSE IF stageIndex < currentStageIndex THEN "completed"
          ELSE IF stageIndex = currentStageIndex THEN "processing"
          ELSE "idle"

FetchesIssued == Cardinality({f \in Fetches : fetches[f].st # "none"})

\* the request a call of loadWorkflowStatus issues
NewFetch ==
  CHOOSE f \in Fetches :
    fetches[f].st = "none" /\ \A g \in Fetches : g < f => fetches[g].st # "none"

\* close events the client's own close() calls have still to deliver
PendingCloses ==
  Cardinality({s \in Sockets : sock[s] \in {"closing", "aborting"}})

\* A render of the page with its effects.  The hook's effect comes first:
\* its cleanup clears the reconnect timer and closes ws.current, then
\* connect() opens a new socket.  The page's effect runs only when
\* isConnected (or workflowId) changed: loadWorkflowStatus(), and, when
\* isConnected, subscribeToWorkflow(workflowId).
Render ==
  /\ mounted
  /\ dirty
  /\ Created < MaxSockets
  /\ LET closedOld == CloseSocket(sock, wsCurrent)
         new == NewSocket(sock)
         sk == [closedOld EXCEPT ![new] = "connecting"]
         pageEffect == ~committed \/ effConnected # isConnected
     IN /\ pageEffect => FetchesIssued < MaxFetches
        /\ sock' = sk
        /\ wsCurrent' = new
        /\ timerRef' = FALSE
        /\ fetches' = IF pageEffect
                      THEN [fetches EXCEPT ![NewFetch] =
                                              [st |-> "requested"]]
                      ELSE fetches
        /\ subscribeSent' = IF pageEffect /\ isConnected
                            THEN sendMessage(sk, new, subscribeSent)
                            ELSE subscribeSent
  /\ dirty' = FALSE
  /\ committed' = TRUE
  /\ effConnected' = isConnected
  /\ UNCHANGED <<orphanTimers, attempts, isConnected, wsError, lastMessage,
                 lastFrame, workflow, loading, mounted, navCauses, navTimers,
                 store, dashVars, uploadVars, resultVars, orchVars, chanVars>>

IsTerminalStatus(status) == status \in {"completed", "error"}

\* message.status === 'completed' / statusData.status === 'completed'
IsCompleted(status) == status = "completed"

\* navigate(`/results/${workflowId}`): the route change unmounts the page,
\* which runs the hook's cleanup
Navigate(via, status) ==
  /\ navCauses' = navCauses \cup {<<via, status>>}
  /\ IF mounted
     THEN /\ mounted' = FALSE
          /\ dirty' = FALSE
          /\ timerRef' = FALSE
          /\ sock' = CloseSocket(sock, wsCurrent)
     ELSE UNCHANGED <<mounted, dirty, timerRef, sock>>

\* loadWorkflowStatus, after the await: the response has arrived
StatusResolves(f) ==
  /\ fetches[f].st = "responded"
  /\ LET statusData == fetches[f].data
     IN /\ workflow' = IF mounted THEN statusData ELSE workflow
        /\ store' = updateWorkflow(store, statusData)
        /\ loading' = IF mounted THEN FALSE ELSE loading
        /\ IF IsCompleted(statusData.status)
           THEN Navigate("fetch", statusData.status)
           ELSE /\ dirty' = mounted
                /\ UNCHANGED <<navCauses, mounted, timerRef, sock>>
  /\ fetches' = [fetches EXCEPT ![f] = [st |-> "done"]]
  /\ UNCHANGED <<wsCurrent, orphanTimers, attempts, isConnected, wsError,
                 subscribeSent, lastMessage, lastFrame, committed,
                 effConnected, navTimers, dashVars, uploadVars, resultVars,
                 orchVars, chanVars>>

\* loadWorkflowStatus, catch branch: toast, then setLoading(false)
StatusRejects(f) ==
  /\ fetches[f].st = "failed"
  /\ fetches' = [fetches EXCEPT ![f] = [st |-> "done"]]
  /\ loading' = IF mounted THEN FALSE ELSE loading
  /\ dirty' = (dirty \/ (mounted /\ loading))
  /\ toast' = [kind |-> "error", text |-> "Failed to load workflow status"]
  /\ UNCHANGED <<workflow, committed, effConnected, mounted, navCauses,
                 navTimers, hookVars, store, dashVars, uploadRest,
                 resultVars, orchVars, chanVars>>

(***************************************************************************)
(* The page against a server that stays reachable: every connection the    *)
(* client starts opens, a connection closes only when the client closes   *)
(* it, and every status request is answered.  Sockets and requests that   *)
(* can no longer cause anything are dropped from the state, so that the   *)
(* page can go on rendering without end within the bounds.                *)
(***************************************************************************)
\* a render, held back while the timers that the pending close events may
\* still set would exceed the bound
RenderReachable ==
  /\ orphanTimers + PendingCloses < MaxSockets
  /\ Render

\* the close event of a socket the client closed while it was open
ClientCloseCompletes(s) ==
  /\ sock[s] = "closing"
  /\ WsCloses(s)

\* the error and close events of a socket the client closed while it was
\* connecting
ClientAbortCompletes(s) ==
  /\ sock[s] = "aborting"
  /\ WsFails(s)

\* a close event of any socket (the server closes it, the connection is
\* refused, or the client closed it), held back while the reconnect timers
\* nobody can clear any more are at the bound
SocketCloses(s) ==
  /\ orphanTimers < MaxSockets
  /\ WsCloses(s) \/ WsFails(s)

\* a closed socket, or an open socket that ws.current no longer refers to
\* and that the server keeps open, takes no further part
SocketDropped(s) ==
  /\ \/ sock[s] = "closed"
     \/ sock[s] = "open" /\ s # wsCurrent
  /\ sock' = [sock EXCEPT ![s] = "none"]
  /\ subscribeSent' = subscribeSent \ {s}
  /\ UNCHANGED <<wsCurrent, timerRef, orphanTimers, attempts, isConnected,
                 wsError, lastMessage, lastFrame, pageVars, fetches, store,
                 dashVars, uploadVars, resultVars, orchVars, chanVars>>

\* a status request whose response has been handled takes no further part
FetchDropped(f) ==
  /\ fetches[f].st = "done"
  /\ fetches' = [fetches EXCEPT ![f] = NoFetch]
  /\ UNCHANGED <<hookVars, pageVars, store, dashVars, uploadVars,
                 resultVars, orchVars, chanVars>>

(***************************************************************************)
(* Frames arriving on a socket of the page: ws.onmessage and the page's    *)
(* onMessage handler.                                                      *)
(***************************************************************************)
\* the records the frames below carry
PushedRecords ==
  {[status |-> "processing", current_stage |-> "extraction", progress |-> 25,
    message |-> "processing"],
   [status |-> "processing", current_stage |-> "supplier_bom",
    progress |-> 50, message |-> "processing"],
   [status |-> "completed", current_stage |-> "comparison", progress |-> 100,
    message |-> "completed"],
   [status |-> "error", current_stage |-> "extraction", progress |-> 25,
    message |-> "ai_timeout"]}

CompletedRecord ==
  [status |-> "completed", current_stage |-> "comparison", progress |-> 100,
   message |-> "completed"]

\* event.data of the frames a socket may receive: updates for the page's
\* workflow, an update for another workflow, a message of another type and
\* a text that is not JSON
Frames ==
  {[json |-> TRUE, value |-> Snapshot(workflowId, r)] : r \in PushedRecords}
    \cup {[json |-> TRUE, value |-> Snapshot("W2", CompletedRecord)],
          [json |-> TRUE,
           value |-> [Snapshot(workflowId, CompletedRecord)
                        EXCEPT !.type = "subscription_confirmed"]],
          [json |-> FALSE]}

\* useState(null) of lastMessage
NoMessage == [type |-> "null"]

AcceptsAnyWorkflow(message) == message.type = "autonomous_workflow_update"

\* the page's onMessage callback accepts the message
Accepts(message) ==
  message.type = "autonomous_workflow_update" /\ message.workflow_id = workflowId

\* the object onMessage builds from an accepted message
updatedWorkflow(message) ==
  [workflow_id |-> workflowId, status |-> message.status,
   progress |-> message.progress, current_stage |-> message.current_stage,
   message |-> message.message]

JSON_parseLenient(data) ==
  [ok |-> TRUE,
   value |-> IF data.json THEN data.value
             ELSE [type |-> "text", workflow_id |-> "null"]]

\* JSON.parse(event.data): the value, or an exception for a text that is
\* not JSON
JSON_parse(data) ==
  IF data.json THEN [ok |-> TRUE, value |-> data.value] ELSE [ok |-> FALSE]

\* no call of ws.onmessage yet
NoFrame == [seq |-> 0, json |-> TRUE, onMessage |-> FALSE]

\* ws.onmessage: JSON.parse(event.data), setLastMessage, onMessage; a text
\* that does not parse is logged and dropped
WsMessage(s, data) ==
  /\ sock[s] = "open"
  /\ LET parsed == JSON_parse(data)
     IN /\ lastFrame' = [seq |-> (lastFrame.seq + 1) % 2, json |-> data.json,
                         onMessage |-> parsed.ok]
        /\ IF ~parsed.ok
           THEN UNCHANGED <<lastMessage, dirty, workflow, store, navTimers,
                            toast>>
           ELSE LET message == parsed.value
                IN /\ lastMessage' = IF mounted THEN message ELSE lastMessage
                   /\ dirty' = (dirty \/ mounted)
                   /\ IF Accepts(message)
                      THEN /\ workflow' = IF mounted
                                          THEN updatedWorkflow(message)
                                          ELSE workflow
                           /\ store' = updateWorkflow(store,
                                                      updatedWorkflow(message))
                           /\ IF IsCompleted(message.status)
                              THEN /\ Len(navTimers) < MaxNavTimers
                                   /\ navTimers' =
                                        Append(navTimers, message.status)
                                   /\ toast' =
                                        [kind |-> "success",
                                         text |-> "Processing completed!"]
                              ELSE /\ UNCHANGED navTimers
                                   /\ toast' =
                                        IF message.status = "error"
                                        THEN [kind |-> "error",
                                              text |-> "Processing failed"]
                                        ELSE toast
                      ELSE UNCHANGED <<workflow, store, navTimers, toast>>
  /\ UNCHANGED <<sock, wsCurrent, timerRef, orphanTimers, attempts,
                 isConnected, wsError, subscribeSent, loading, committed,
                 effConnected, mounted, navCauses, fetches, dashVars,
                 uploadRest, resultVars, orchVars, chanVars>>

\* the timer set by onMessage fires: navigate(`/results/${workflowId}`)
NavTimerFires ==
  /\ navTimers # <<>>
  /\ navTimers' = Tail(navTimers)
  /\ Navigate("push", Head(navTimers))
  /\ UNCHANGED <<wsCurrent, orphanTimers, attempts, isConnected, wsError,
                 subscribeSent, lastMessage, lastFrame, workflow, loading,
                 committed, effConnected, fetches, store, dashVars,
                 uploadVars, resultVars, orchVars, chanVars>>

(***************************************************************************)
(* Dashboard.                                                              *)
(***************************************************************************)
\* GET /api/workflows: the workflows the server holds, oldest first
ListWorkflows ==
  <<Spread(StatusData("W1"), [created_at |-> 1]),
    Spread(StatusData("W2"), [created_at |-> 2])>>

\* .sort((a, b) => new Date(b.created_at) - new Date(a.created_at))
RECURSIVE SortNewestFirst(_)
SortNewestFirst(list) ==
  IF list = <<>> THEN <<>>
  ELSE LET newest == CHOOSE i \in 1..Len(list) :
                       \A j \in 1..Len(list) :
                         \/ list[j].created_at < list[i].created_at
                         \/ (list[j].created_at = list[i].created_at /\ i <= j)
           rest == [k \in 1..(Len(list) - 1) |->
                      IF k < newest THEN list[k] ELSE list[k + 1]]
       IN <<list[newest]>> \o SortNewestFirst(rest)

\* .slice(0, 5)
Slice5(list) == SubSeq(list, 1, IF Len(list) < 5 THEN Len(list) ELSE 5)

\* the `to` of the link the Dashboard renders for a recent workflow
LinkTo(w) ==
  IF w.status = "completed"
  THEN <<"results", w.workflow_id>>
  ELSE <<"processing", w.workflow_id>>

\* loadDashboardData resolves and the Dashboard renders its recent workflows
\* (the user reaches the Dashboard after leaving the Processing page)
DashboardLoads ==
  /\ ~mounted
  /\ recentWorkflows = <<>>
  /\ LET recent == Slice5(SortNewestFirst(ListWorkflows))
     IN /\ store' = workflowReducer(store, [type |-> "SET_WORKFLOWS",
                                            payload |-> ListWorkflows])
        /\ recentWorkflows' = recent
        /\ recentLinks' = [i \in 1..Len(recent) |-> LinkTo(recent[i])]
  /\ UNCHANGED <<hookVars, pageVars, fetches, uploadVars, resultVars,
                 orchVars, chanVars>>

(***************************************************************************)
(* Upload page.  A string is the sequence of its characters.               *)
(***************************************************************************)
\* the names of the files the user may pick or drop
FileNames ==
  {<<"a", ".", "p", "d", "f">>,
   <<"a", ".", "P", "D", "F">>,
   <<"a", ".", "d", "o", "c", "x">>,
   <<"a", ".", "D", "o", "c">>,
   <<"a", ".", "t", "x", "t">>,
   <<"a", ".", "x", "l", "s", "x">>,
   <<"a", ".", "X", "L", "S">>,
   <<"a", ".", "c", "s", "v">>,
   <<"a", ".", "e", "x", "e">>,
   <<"a", ".", "p", "d", "f", ".", "e", "x", "e">>,
   <<"a", ".", "t", "a", "r", ".", "c", "s", "v">>,
   <<"p", "d", "f">>,
   <<"c", "s", "v">>,
   <<"a", ".">>,
   <<"a">>}

UpperCaseLetters ==
  <<"A", "B", "C", "D", "E", "F", "G", "H", "I", "J", "K", "L", "M",
    "N", "O", "P", "Q", "R", "S", "T", "U", "V", "W", "X", "Y", "Z">>

LowerCaseLetters ==
  <<"a", "b", "c", "d", "e", "f", "g", "h", "i", "j", "k", "l", "m",
    "n", "o", "p", "q", "r", "s", "t", "u", "v", "w", "x", "y", "z">>

\* String.prototype.toLowerCase
toLowerCase(str) ==
  [i \in 1..Len(str) |->
     IF \E k \in 1..26 : UpperCaseLetters[k] = str[i]
     THEN LowerCaseLetters[CHOOSE k \in 1..26 : UpperCaseLetters[k] = str[i]]
     ELSE str[i]]

\* String.prototype.split('.')
RECURSIVE split(_)
split(str) ==
  IF \A i \in 1..Len(str) : str[i] # "."
  THEN <<str>>
  ELSE LET dot == CHOOSE i \in 1..Len(str) :
                    str[i] = "." /\ \A j \in 1..(i - 1) : str[j] # "."
       IN <<SubSeq(str, 1, dot - 1)>> \o split(SubSeq(str, dot + 1, Len(str)))

\* the element Array.prototype.pop returns
pop(list) == list[Len(list)]

\* Array.prototype.includes
includes(list, x) == \E i \in 1..Len(list) : list[i] = x

\* '.' + file.name.split('.').pop().toLowerCase()
fileExt(name) == <<".">> \o toLowerCase(pop(split(name)))

qaDocTypes ==
  <<<<".", "p", "d", "f">>, <<".", "d", "o", "c", "x">>,
    <<".", "d", "o", "c">>, <<".", "t", "x", "t">>>>

bomTypes ==
  <<<<".", "x", "l", "s", "x">>, <<".", "x", "l", "s">>,
    <<".", "c", "s", "v">>>>

NoToast == [kind |-> "none"]
NoSelect == [handler |-> "none"]
NoUpload == [st |-> "none"]

handleQaDocumentSelect(file) ==
  /\ uploadNav = "null"
  /\ lastSelect' = [handler |-> "qa", file |-> file, previous |-> qaDocument]
  /\ IF ~includes(qaDocTypes, fileExt(file))
     THEN /\ toast' = [kind |-> "error",
                       text |-> "Invalid WI/QC document type"]
          /\ UNCHANGED qaDocument
     ELSE /\ qaDocument' = file
          /\ toast' = [kind |-> "success", text |-> "WI/QC document selected"]
  /\ UNCHANGED <<supplierBom, uploading, upload, uploadNav, created,
                 hookVars, pageVars, fetches, store, dashVars, resultVars,
                 orchVars, chanVars>>

handleSupplierBomSelect(file) ==
  /\ uploadNav = "null"
  /\ lastSelect' = [handler |-> "bom", file |-> file, previous |-> supplierBom]
  /\ IF ~includes(bomTypes, fileExt(file))
     THEN /\ toast' = [kind |-> "error",
                       text |-> "Invalid supplier BOM type"]
          /\ UNCHANGED supplierBom
     ELSE /\ supplierBom' = file
          /\ toast' = [kind |-> "success", text |-> "Item Master selected"]
  /\ UNCHANGED <<qaDocument, uploading, upload, uploadNav, created, hookVars,
                 pageVars, fetches, store, dashVars, resultVars, orchVars,
                 chanVars>>

\* onRemove of the QA document card: setQaDocument(null)
removeQaDocument ==
  /\ uploadNav = "null"
  /\ qaDocument # "null"
  /\ qaDocument' = "null"
  /\ UNCHANGED <<supplierBom, toast, lastSelect, uploading, upload,
                 uploadNav, created, hookVars, pageVars, fetches, store,
                 dashVars, resultVars, orchVars, chanVars>>

\* onRemove of the item list card: setSupplierBom(null)
removeSupplierBom ==
  /\ uploadNav = "null"
  /\ supplierBom # "null"
  /\ supplierBom' = "null"
  /\ UNCHANGED <<qaDocument, toast, lastSelect, uploading, upload, uploadNav,
                 created, hookVars, pageVars, fetches, store, dashVars,
                 resultVars, orchVars, chanVars>>

EitherSelected(qa, bom) == qa # "null" \/ bom # "null"

\* !(!qaDocument || !supplierBom)
BothSelected(qa, bom) == qa # "null" /\ bom # "null"

\* handleStartProcessing up to its await.  The button that calls it is
\* disabled while uploading; the handler itself tests for the two files.
handleStartProcessing ==
  /\ uploadNav = "null"
  /\ ~uploading
  /\ IF ~BothSelected(qaDocument, supplierBom)
     THEN /\ toast' = [kind |-> "error", text |-> "Please select both documents"]
          /\ UNCHANGED <<uploading, upload>>
     ELSE /\ uploading' = TRUE
          /\ upload' = [st |-> "requested", qa_document |-> qaDocument,
                        supplier_bom |-> supplierBom]
          /\ UNCHANGED toast
  /\ UNCHANGED <<qaDocument, supplierBom, lastSelect, uploadNav, created,
                 hookVars, pageVars, fetches, store, dashVars, resultVars,
                 orchVars, chanVars>>

\* POST /api/upload succeeds: the backend creates a workflow and answers
\* with its id
UploadAccepted(w) ==
  /\ upload.st = "requested"
  /\ w \notin created
  /\ created' = created \cup {w}
  /\ upload' = [st |-> "ok", workflow_id |-> w]
  /\ UNCHANGED <<qaDocument, supplierBom, toast, lastSelect, uploading,
                 uploadNav, hookVars, pageVars, fetches, store, dashVars,
                 resultVars, orchVars, chanVars>>

\* POST /api/upload fails (validation error, network error): no workflow
UploadRejected ==
  /\ upload.st = "requested"
  /\ upload' = [st |-> "failed"]
  /\ UNCHANGED <<qaDocument, supplierBom, toast, lastSelect, uploading,
                 uploadNav, created, hookVars, pageVars, fetches, store,
                 dashVars, resultVars, orchVars, chanVars>>

\* handleStartProcessing after the await, success: setCurrentWorkflow,
\* toast, navigate, and setUploading(false) in finally
UploadResolves ==
  /\ upload.st = "ok"
  /\ store' = workflowReducer(store, [type |-> "SET_CURRENT_WORKFLOW",
                                      payload |-> upload.workflow_id])
  /\ toast' = [kind |-> "success", text |-> "Documents uploaded!"]
  /\ uploadNav' = upload.workflow_id
  /\ uploading' = FALSE
  /\ upload' = [st |-> "settled", ok |-> TRUE]
  /\ UNCHANGED <<qaDocument, supplierBom, lastSelect, created, hookVars,
                 pageVars, fetches, dashVars, resultVars, orchVars, chanVars>>

\* handleStartProcessing after the await, catch: toast, and
\* setUploading(false) in finally
UploadRejects ==
  /\ upload.st = "failed"
  /\ toast' = [kind |-> "error", text |-> "Upload failed"]
  /\ uploading' = FALSE
  /\ upload' = [st |-> "settled", ok |-> FALSE]
  /\ UNCHANGED <<qaDocument, supplierBom, lastSelect, uploadNav, created,
                 hookVars, pageVars, fetches, store, dashVars, resultVars,
                 orchVars, chanVars>>

\* the names used where the start of processing is studied
StartFileNames ==
  {<<"a", ".", "p", "d", "f">>, <<"a", ".", "c", "s", "v">>,
   <<"a", ".", "e", "x", "e">>}

(***************************************************************************)
(* Match records and the classification table.                             *)
(*                                                                         *)
(* A string is the sequence of its characters; the three action-path       *)
(* symbols are single characters, written "GREEN", "AMBER" and "RED".  A    *)
(* field a record does not carry (undefined) is a field outside its        *)
(* DOMAIN.  confidence_score is held in thousandths.                       *)
(***************************************************************************)
Green == "GREEN"
Amber == "AMBER"
Red == "RED"

Labels == 1..13

ActionPathOfDefaulting(label) ==
  IF label \in {1, 2} THEN Green
  ELSE IF label \in {3, 5, 9, 11, 12} THEN Amber
  ELSE Red

\* QA Classification System (13 Categories): the tag of each label
ActionPathOf(label) ==
  IF label \in {1, 2} THEN Green
  ELSE IF label \in {3, 9, 11, 12} THEN Amber
  ELSE Red

\* a match record as the comparison stage produces it for an item that the
\* extraction stage classified with label
ClassifiedMatch(label) ==
  [qa_material_name |-> <<"M">>, part_number |-> <<"P", "1">>,
   qa_classification_label |-> label, qa_action_path |-> ActionPathOf(label),
   confidence_score |-> 1000, supplier_description |-> <<"S">>,
   reasoning |-> <<"r">>]

\* the record without the fields in absent
Without(rec, absent) == [k \in (DOMAIN rec) \ absent |-> rec[k]]

\* records with an absent label or tag, a comma, a double quote or a line
\* break in a text field, and a score that is not a whole percentage
SpecialMatches ==
  {Without(ClassifiedMatch(1), {"qa_classification_label", "qa_action_path"}),
   Without(ClassifiedMatch(4), {"qa_action_path"}),
   [ClassifiedMatch(3) EXCEPT !.qa_material_name = <<"a", ",", "b">>],
   [ClassifiedMatch(9) EXCEPT !.qa_material_name = <<"a", "\"", ",", "\"", "b">>],
   [ClassifiedMatch(6) EXCEPT !.reasoning = <<"x", "\n", "y">>],
   [ClassifiedMatch(2) EXCEPT !.confidence_score = 856]}

\* records of items without a supplier item (score 0) and with a supplier
\* item matched with a score of 0.004, 0.5 and 0.995
ScoreMatches ==
  {Without([ClassifiedMatch(7) EXCEPT !.confidence_score = 0],
           {"supplier_description"}),
   [ClassifiedMatch(8) EXCEPT !.confidence_score = 0],
   [ClassifiedMatch(10) EXCEPT !.confidence_score = 4],
   [ClassifiedMatch(11) EXCEPT !.confidence_score = 500],
   [ClassifiedMatch(13) EXCEPT !.confidence_score = 995]}

\* the records of the result sets of more than one record
MatchPool == {ClassifiedMatch(5), ClassifiedMatch(12)} \cup SpecialMatches

\* the result sets GET /api/results may return: one classified record of
\* any label, one record of ScoreMatches, or up to MaxMatches records of
\* MatchPool
ResultSets ==
  {<<ClassifiedMatch(l)>> : l \in Labels}
    \cup {<<m>> : m \in ScoreMatches}
    \cup UNION {[1..n -> MatchPool] : n \in 0..MaxMatches}

(***************************************************************************)
(* Results page.                                                           *)
(***************************************************************************)
\* the fields of a match record that hold a number, a boolean and a single
\* character; the others hold text
NumberFields == {"confidence_score", "qa_classification_label", "quantity"}
FlagFields == {"consumable_jigs_tools", "name_mismatch", "pn_mismatch",
               "obsolete_pn", "kit_available"}
SymbolFields == {"qa_action_path"}

\* JavaScript truthiness of the field k of record m (undefined, '', 0 and
\* false are falsy)
Truthy(m, k) ==
  /\ k \in DOMAIN m
  /\ CASE k \in NumberFields -> m[k] # 0
       [] k \in FlagFields -> m[k]
       [] k \in SymbolFields -> TRUE
       [] OTHER -> m[k] # <<>>

\* m[k] || dflt
OrElse(m, k, dflt) == IF Truthy(m, k) THEN m[k] ELSE dflt

\* match.qa_action_path === tag
HasTag(m, tag) == "qa_action_path" \in DOMAIN m /\ m.qa_action_path = tag

\* Array.prototype.filter
filter(list, keep(_)) == SelectSeq(list, keep)

\* useState(null) of results
NoResults == [data |-> "null"]

\* const matches = results.matches || []
matches == IF results = NoResults THEN <<>> ELSE results.matches

greenCount == Len(filter(matches, LAMBDA m : HasTag(m, Green)))
amberCount == Len(filter(matches, LAMBDA m : HasTag(m, Amber)))
redCount == Len(filter(matches, LAMBDA m : HasTag(m, Red)))

\* the values the filter select offers
FilterValues == {"all", "green", "amber", "red"}

filteredMatchesKeepAll ==
  matches

filteredMatches ==
  IF filterRAG = "all" THEN matches
  ELSE filter(matches,
              LAMBDA m : IF filterRAG = "green" THEN HasTag(m, Green)
                         ELSE IF filterRAG = "amber" THEN HasTag(m, Amber)
                         ELSE IF filterRAG = "red" THEN HasTag(m, Red)
                         ELSE TRUE)

\* getActionPathIcon(actionPath).icon
getActionPathIcon(m) ==
  IF HasTag(m, Green) THEN Green
  ELSE IF HasTag(m, Amber) THEN Amber
  ELSE IF HasTag(m, Red) THEN Red
  ELSE Amber

HasSupplierMatchOrZero(m) ==
  "confidence_score" \in DOMAIN m /\ m.confidence_score >= 0

\* match.confidence_score > 0
HasSupplierMatch(m) ==
  "confidence_score" \in DOMAIN m /\ m.confidence_score > 0

\* the text of a field that may be undefined
TextOf(m, k) ==
  IF k \in DOMAIN m THEN m[k]
  ELSE <<"u", "n", "d", "e", "f", "i", "n", "e", "d">>

\* the supplier match cell of a row of the table: the supplier description
\* with Math.round(match.confidence_score * 100) percent, or the text
\* No match found
supplierMatchCell(m) ==
  IF HasSupplierMatch(m)
  THEN [description |-> TextOf(m, "supplier_description"),
        percent |-> (m.confidence_score + 5) \div 10]
  ELSE [text |-> "No match found"]

\* the classification and action path cells of the rows of the table
DisplayedRows ==
  [i \in 1..Len(filteredMatches) |->
     [label |-> OrElse(filteredMatches[i], "qa_classification_label", 5),
      icon |-> getActionPathIcon(filteredMatches[i])]]

\* loadResults, after the await: setResults(data), setLoading(false)
ResultsArrive(ms) ==
  /\ resultsReq = "requested"
  /\ resultsReq' = "done"
  /\ results' = [matches |-> ms]
  /\ resLoading' = FALSE
  /\ UNCHANGED <<filterRAG, apiCalls, csvContent, toast>>
  /\ UNCHANGED <<qaDocument, supplierBom, lastSelect, uploading, upload,
                 uploadNav, created, hookVars, pageVars, fetches, store,
                 dashVars, orchVars, chanVars>>

\* loadResults, catch and finally: toast, setLoading(false)
ResultsFail ==
  /\ resultsReq = "requested"
  /\ resultsReq' = "done"
  /\ toast' = [kind |-> "error", text |-> "Failed to load results"]
  /\ resLoading' = FALSE
  /\ UNCHANGED <<results, filterRAG, apiCalls, csvContent>>
  /\ UNCHANGED <<qaDocument, supplierBom, lastSelect, uploading, upload,
                 uploadNav, created, hookVars, pageVars, fetches, store,
                 dashVars, orchVars, chanVars>>

\* onChange of the filter select: setFilterRAG(e.target.value); the select
\* is rendered once the results are loaded
setFilterRAG(value) ==
  /\ results # NoResults
  /\ filterRAG' = value
  /\ UNCHANGED <<results, resLoading, resultsReq, apiCalls, csvContent>>
  /\ UNCHANGED <<uploadVars, hookVars, pageVars, fetches, store, dashVars,
                 orchVars, chanVars>>

(***************************************************************************)
(* CSV export of the Results page.                                         *)
(***************************************************************************)
csvHeaders ==
  <<<<"S", ".", " ", "N", "o", ".">>,
    <<"M", "a", "t", "e", "r", "i", "a", "l", " ", "N", "a", "m", "e">>,
    <<"Q", "C", " ", "P", "r", "o", "c", "e", "s", "s", " ", "/", " ", "W",
    "I", " ", "S", "t", "e", "p">>,
    <<"C", "o", "n", "s", "u", "m", "a", "b", "l", "e", "/", "J", "i", "g",
    "s", "/", "T", "o", "o", "l", "s">>,
    <<"N", "a", "m", "e", " ", "M", "i", "s", "m", "a", "t", "c", "h">>,
    <<"P", "N", " ", "(", "P", "a", "r", "t", " ", "N", "a", "m", "e", ")">>,
    <<"P", "N", " ", "M", "i", "s", "m", "a", "t", "c", "h">>,
    <<"Q", "t", "y">>,
    <<"U", "o", "M">>,
    <<"O", "b", "s", "o", "l", "e", "t", "e", " ", "P", "N">>,
    <<"V", "e", "n", "d", "o", "r", " ", "N", "a", "m", "e">>,
    <<"K", "i", "t", " ", "A", "v", "a", "i", "l", "a", "b", "l", "e">>,
    <<"A", "I", " ", "E", "n", "g", "i", "n", "e", " ", "P", "r", "o", "c",
    "e", "s", "s", "i", "n", "g">>,
    <<"C", "o", "n", "f", "i", "d", "e", "n", "c", "e", " ", "L", "e", "v",
    "e", "l">>,
    <<"A", "c", "t", "i", "o", "n", " ", "P", "a", "t", "h", " ", "(", "R",
    "A", "G", ")">>,
    <<"C", "l", "a", "s", "s", "i", "f", "i", "c", "a", "t", "i", "o", "n",
    " ", "L", "a", "b", "e", "l">>,
    <<"S", "u", "p", "p", "l", "i", "e", "r", " ", "M", "a", "t", "c", "h">>,
    <<"M", "a", "t", "c", "h", " ", "C", "o", "n", "f", "i", "d", "e", "n",
    "c", "e">>,
    <<"R", "e", "a", "s", "o", "n">>>>

Digits == <<"0", "1", "2", "3", "4", "5", "6", "7", "8", "9">>

\* the decimal text of a natural number, as a template literal renders it
RECURSIVE ToStr(_)
ToStr(n) ==
  IF n < 10 THEN <<Digits[n + 1]>>
  ELSE ToStr(n \div 10) \o <<Digits[(n % 10) + 1]>>

\* match.flag ? 'Yes' : 'No'
YesNo(m, k) == IF Truthy(m, k) THEN <<"Y", "e", "s">> ELSE <<"N", "o">>

\* Math.round((match.confidence_score || 0) * 100), the score in thousandths
RoundedPercent(m) == (OrElse(m, "confidence_score", 0) + 5) \div 10

\* the cells of the row of match m at 0-based position index
csvRow(m, index) ==
  <<ToStr(index + 1),
    OrElse(m, "qa_material_name", <<>>),
    OrElse(m, "qc_process_step", <<>>),
    YesNo(m, "consumable_jigs_tools"),
    YesNo(m, "name_mismatch"),
    OrElse(m, "part_number", <<>>),
    YesNo(m, "pn_mismatch"),
    IF Truthy(m, "quantity") THEN ToStr(m.quantity) ELSE <<>>,
    OrElse(m, "unit_of_measure", <<>>),
    YesNo(m, "obsolete_pn"),
    OrElse(m, "vendor_name", <<>>),
    YesNo(m, "kit_available"),
    <<"A", "I", " ", "P", "r", "o", "c", "e", "s", "s", "e", "d">>,
    OrElse(m, "qa_confidence_level", <<"M", "e", "d", "i", "u", "m">>),
    <<OrElse(m, "qa_action_path", Amber)>>,
    <<"L", "a", "b", "e", "l", " ">> \o ToStr(OrElse(m, "qa_classification_label", 5)),
    IF HasSupplierMatch(m) THEN TextOf(m, "supplier_description")
    ELSE <<"N", "o", " ", "M", "a", "t", "c", "h">>,
    ToStr(RoundedPercent(m)) \o <<"%">>,
    OrElse(m, "reasoning",
           <<"N", "o", " ", "r", "e", "a", "s", "o", "n", " ", "p", "r", "o",
           "v", "i", "d", "e", "d">>)>>

\* results.matches.map((match, index) => [...])
csvRows(ms) == [i \in 1..Len(ms) |-> csvRow(ms[i], i - 1)]

QuoteCellBare(cell) == cell

\* `"${cell}"`
QuoteCell(cell) == <<"\"">> \o cell \o <<"\"">>

\* Array.prototype.join on strings
RECURSIVE join(_, _)
join(list, sep) ==
  IF list = <<>> THEN <<>>
  ELSE IF Len(list) = 1 THEN list[1]
  ELSE list[1] \o sep \o join(Tail(list), sep)

\* [csvHeaders, ...csvRows].map(row => row.map(cell => `"${cell}"`)
\*   .join(',')).join('\n')
CsvText(ms) ==
  LET rows == <<csvHeaders>> \o csvRows(ms)
      lines == [r \in 1..Len(rows) |->
                  join([c \in 1..Len(rows[r]) |-> QuoteCell(rows[r][c])],
                       <<",">>)]
  IN join(lines, <<"\n">>)

\* exportQAClassificationCSV: the button is rendered once results are
\* loaded
exportQAClassificationCSV ==
  /\ results # NoResults
  /\ csvContent' = CsvText(results.matches)
  /\ toast' = [kind |-> "success",
               text |-> "WI/QC Item Classification exported to CSV!"]
  /\ UNCHANGED <<results, resLoading, filterRAG, resultsReq, apiCalls>>
  /\ UNCHANGED <<qaDocument, supplierBom, lastSelect, uploading, upload,
                 uploadNav, created, hookVars, pageVars, fetches, store,
                 dashVars, orchVars, chanVars>>

InitClient ==
  /\ sock = [s \in Sockets |-> "none"]
  /\ wsCurrent = 0
  /\ timerRef = FALSE
  /\ orphanTimers = 0
  /\ attempts = 0
  /\ isConnected = FALSE
  /\ wsError = "null"
  /\ subscribeSent = {}
  /\ lastMessage = NoMessage
  /\ lastFrame = NoFrame
  /\ workflow = NoWorkflow
  /\ loading = TRUE
  /\ dirty = TRUE
  /\ committed = FALSE
  /\ effConnected = FALSE
  /\ mounted = TRUE
  /\ navCauses = {}
  /\ navTimers = <<>>
  /\ fetches = [f \in Fetches |-> NoFetch]
  /\ store = initialState
  /\ recentWorkflows = <<>>
  /\ recentLinks = <<>>
  /\ qaDocument = "null"
  /\ supplierBom = "null"
  /\ toast = NoToast
  /\ lastSelect = NoSelect
  /\ uploading = FALSE
  /\ upload = NoUpload
  /\ uploadNav = "null"
  /\ created = {}
  /\ results = NoResults
  /\ resLoading = TRUE
  /\ filterRAG = "all"
  /\ resultsReq = "requested"
  /\ apiCalls = 1
  /\ csvContent = <<"null">>

InitOrch ==
  /\ wf = [w \in Workflows |-> NewWorkflow]
  /\ started = [w \in Workflows |-> <<>>]
  /\ finished = [w \in Workflows |-> <<>>]
  /\ failure = [w \in Workflows |-> <<>>]

InitChan ==
  /\ registry = {}
  /\ alive = {}
  /\ subs = [c \in Conns |-> {}]
  /\ lastPub = NoPublish

Init == InitOrch /\ InitChan /\ InitClient

NextOrch ==
  \/ \E w \in Workflows : BeginWorkflow(w)
  \/ \E w \in Workflows : StageSucceeds(w)
  \/ \E w \in Workflows, m \in FailureMessages : StageFails(w, m)
  \/ \E c \in Conns : Connect(c)
  \/ \E c \in Conns, w \in Workflows : Subscribe(c, w)
  \/ \E c \in Conns : ConnectionDies(c)
  \/ \E c \in Conns : Disconnect(c)

SpecOrch == Init /\ [][NextOrch]_vars

\* The Processing page of workflowId against the backend.
Next ==
  \/ BeginWorkflow(workflowId)
  \/ StageSucceeds(workflowId)
  \/ \E m \in FailureMessages : StageFails(workflowId, m)
  \/ \E f \in Fetches : ServeStatus(f)
  \/ \E f \in Fetches : StatusRequestFails(f)
  \/ Render
  \/ \E s \in Sockets : WsOpens(s)
  \/ \E s \in Sockets : WsCloses(s)
  \/ \E s \in Sockets : WsFails(s)
  \/ ReconnectTimerFires
  \/ \E f \in Fetches : StatusResolves(f)
  \/ \E f \in Fetches : StatusRejects(f)

Spec == Init /\ [][Next]_vars

\* the page is opened on a workflow whose last stage is running
InitOrchLastStage ==
  /\ wf = [w \in Workflows |->
            IF w = workflowId
            THEN [status |-> "processing", current_stage |-> StageOrder[4],
                  progress |-> ProgressAfter(3), message |-> "processing"]
            ELSE NewWorkflow]
  /\ started = [w \in Workflows |->
                 IF w = workflowId THEN StageOrder ELSE <<>>]
  /\ finished = [w \in Workflows |->
                  IF w = workflowId THEN SubSeq(StageOrder, 1, 3) ELSE <<>>]
  /\ failure = [w \in Workflows |-> <<>>]

InitPage == InitOrchLastStage /\ InitChan /\ InitClient

\* The page against a workflow in its last stage and an environment that
\* may deliver any frame of Frames over an open socket of the page.
NextPage ==
  \/ StageSucceeds(workflowId)
  \/ \E m \in FailureMessages : StageFails(workflowId, m)
  \/ \E f \in Fetches : ServeStatus(f)
  \/ Render
  \/ \E s \in Sockets : WsOpens(s)
  \/ \E s \in Sockets, data \in Frames : WsMessage(s, data)
  \/ NavTimerFires
  \/ \E f \in Fetches : StatusResolves(f)
  \/ DashboardLoads

SpecPage == InitPage /\ [][NextPage]_vars

\* The page of a workflow in its last stage against a reachable server.
NextReachable ==
  \/ StageSucceeds(workflowId)
  \/ \E f \in Fetches : ServeStatus(f)
  \/ RenderReachable
  \/ \E s \in Sockets : WsOpens(s)
  \/ \E s \in Sockets : ClientCloseCompletes(s)
  \/ \E s \in Sockets : ClientAbortCompletes(s)
  \/ ReconnectTimerFires
  \/ \E f \in Fetches : StatusResolves(f)
  \/ \E s \in Sockets : SocketDropped(s)
  \/ \E f \in Fetches : FetchDropped(f)

\* the scheduler runs a pending render, the network delivers every event
\* and response, timers fire and the running stage finishes
FairReachable ==
  /\ WF_vars(StageSucceeds(workflowId))
  /\ WF_vars(RenderReachable)
  /\ WF_vars(ReconnectTimerFires)
  /\ \A f \in Fetches :
       WF_vars(ServeStatus(f)) /\ WF_vars(StatusResolves(f))
         /\ WF_vars(FetchDropped(f))
  /\ \A s \in Sockets :
       WF_vars(WsOpens(s)) /\ WF_vars(ClientCloseCompletes(s))
         /\ WF_vars(ClientAbortCompletes(s)) /\ WF_vars(SocketDropped(s))

SpecReachable == InitPage /\ [][NextReachable]_vars /\ FairReachable

\* The hook of the page against a server that may refuse and close
\* connections at any time.
NextReconnect ==
  \/ RenderReachable
  \/ \E s \in Sockets : WsOpens(s)
  \/ \E s \in Sockets : SocketCloses(s)
  \/ ReconnectTimerFires
  \/ \E s \in Sockets : SocketDropped(s)
  \/ \E f \in Fetches : ServeStatus(f)
  \/ \E f \in Fetches : StatusResolves(f)
  \/ \E f \in Fetches : FetchDropped(f)

SpecReconnect == InitPage /\ [][NextReconnect]_vars

\* The Upload page: the user picks or drops files into the two zones.
NextUpload ==
  \/ \E file \in FileNames : handleQaDocumentSelect(file)
  \/ \E file \in FileNames : handleSupplierBomSelect(file)

SpecUpload == Init /\ [][NextUpload]_vars

\* The Upload page with its start button and the upload endpoint.
NextStart ==
  \/ \E file \in StartFileNames : handleQaDocumentSelect(file)
  \/ \E file \in StartFileNames : handleSupplierBomSelect(file)
  \/ removeQaDocument
  \/ removeSupplierBom
  \/ handleStartProcessing
  \/ \E w \in Workflows : UploadAccepted(w)
  \/ UploadRejected
  \/ UploadResolves
  \/ UploadRejects

SpecStart == Init /\ [][NextStart]_vars

\* The workflow store under any sequence of dispatched actions.
NextStore == \E action \in StoreActions : dispatch(action)

SpecStore == Init /\ [][NextStore]_vars

\* The Results page of a completed workflow.
NextResults ==
  \/ \E ms \in ResultSets : ResultsArrive(ms)
  \/ ResultsFail
  \/ \E value \in FilterValues : setFilterRAG(value)
  \/ exportQAClassificationCSV

SpecResults == Init /\ [][NextResults]_vars

(***************************************************************************)
(* Properties of the orchestrator and the notification channel.            *)
(***************************************************************************)
IsPrefix(s, t) == Len(s) <= Len(t) /\ \A i \in 1..Len(s) : s[i] = t[i]

StagesInOrder(w) ==
  /\ IsPrefix(started[w], StageOrder)
  /\ IsPrefix(finished[w], started[w])
  /\ Len(started[w]) <= Len(finished[w]) + 1
  /\ wf[w].status = "processing" =>
       /\ started[w] # <<>>
       /\ wf[w].current_stage = started[w][Len(started[w])]
       /\ Len(finished[w]) = Len(started[w]) - 1

StageNeverMovesBack ==
  \A w \in Workflows :
    StageIndex(wf'[w].current_stage) >= StageIndex(wf[w].current_stage)

\* C1: the stages of a workflow are started in the order translation,
\* extraction, supplier_bom, comparison, none skipped; a stage is started
\* only when every earlier stage has succeeded, so at most one stage is
\* running; and current_stage never moves back to an earlier stage.
C1_StagesSequential ==
  /\ [](\A w \in Workflows : StagesInOrder(w))
  /\ [][StageNeverMovesBack]_vars

C1_Witness ==
  \E w \in Workflows :
    /\ started[w] = <<"translation", "extraction", "supplier_bom", "comparison">>
    /\ finished[w] = started[w]

\* C2: once a stage has failed the workflow's status is error, its message
\* is the failure message, its progress is below 100 and the failed stage
\* is the last stage that was ever started.
C2_FailureIsTerminal ==
  \A w \in Workflows :
    failure[w] # <<>> =>
      /\ wf[w].status = "error"
      /\ wf[w].message = failure[w][2]
      /\ wf[w].progress < 100
      /\ started[w][Len(started[w])] = failure[w][1]
      /\ Len(finished[w]) = Len(started[w]) - 1

C2_Witness ==
  \E w \in Workflows :
    /\ failure[w] # <<>>
    /\ failure[w][1] = "extraction"
    /\ wf[w].status = "error"

LiveSubscribers(w) == {c \in registry \cap alive : w \in subs[c]}

\* C6: a step that updates workflow w publishes the new snapshot to every
\* live connection subscribed to w and to no connection that is not
\* subscribed to w (in particular none subscribed only to another workflow).
C6_PublishReachesSubscribersOnly ==
  [][\A w \in Workflows :
       wf'[w] # wf[w] =>
         /\ lastPub'.w = w
         /\ lastPub'.msg = Snapshot(w, wf'[w])
         /\ lastPub'.received = LiveSubscribers(w)
         /\ \A c \in Conns : w \notin subs[c] => c \notin lastPub'.received]_vars

C6_Witness ==
  /\ lastPub.w = "W1"
  /\ lastPub.received # {}
  /\ \E d \in registry \cap alive : subs[d] = {"W2"}

\* C7: a publish made while some subscribers of w are dead still reaches
\* every live subscriber of w and removes the dead ones from the registry,
\* and a processing workflow can always take its next stage step whatever
\* the state of the connections.
C7_DeadSubscriberHarmless ==
  /\ [](\A w \in Workflows : wf[w].status = "processing" =>
          ENABLED StageSucceeds(w))
  /\ [][\A w \in Workflows :
          wf'[w] # wf[w] =>
            /\ LiveSubscribers(w) \subseteq lastPub'.received
            /\ \A d \in Conns :
                 (d \in registry /\ w \in subs[d] /\ d \notin alive) =>
                   (d \notin registry' /\ d \in lastPub'.dropped)]_vars

C7_Witness ==
  /\ lastPub.dropped # {}
  /\ lastPub.received # {}
  /\ wf[lastPub.w].status = "processing"

\* C8: progress stays within 0..100; status is completed exactly when all
\* four stages have succeeded; a completed workflow has progress 100 and no
\* other workflow has.
C8_ProgressAndCompletion ==
  \A w \in Workflows :
    /\ wf[w].progress \in 0..100
    /\ (wf[w].status = "completed") <=> (finished[w] = StageOrder)
    /\ wf[w].status = "completed" => wf[w].progress = 100
    /\ wf[w].progress = 100 => wf[w].status = "completed"

C8_Witness ==
  \E w \in Workflows : wf[w].status = "completed" /\ wf[w].progress = 100

(***************************************************************************)
(* Properties of the Processing page.                                      *)
(***************************************************************************)
Terminal == {"completed", "error"}

StatusOf(rec) == IF rec = NoWorkflow THEN "null" ELSE rec.status

StoredWorkflow ==
  IF workflowId \in DOMAIN store.workflows
  THEN store.workflows[workflowId] ELSE NoWorkflow

\* C3: once a workflow's status is completed or error it never changes
\* again: not in the orchestrator's record, not in the Processing page's
\* workflow state and not in the workflow store.
C3_TerminalStatusIsFinal ==
  [][/\ \A w \in Workflows :
          wf[w].status \in Terminal => wf'[w].status = wf[w].status
     /\ StatusOf(workflow) \in Terminal =>
          StatusOf(workflow') = StatusOf(workflow)
     /\ StatusOf(StoredWorkflow) \in Terminal =>
          StatusOf(StoredWorkflow') = StatusOf(StoredWorkflow)]_vars

\* C4: whatever the interleaving of status responses and pushed updates,
\* the progress the page displays never decreases and the stage it displays
\* never moves to an earlier stage.
C4_DisplayedProgressMonotone ==
  [][(workflow # NoWorkflow /\ workflow' # NoWorkflow) =>
       /\ workflow'.progress >= workflow.progress
       /\ findIndex(workflow'.current_stage) >=
            findIndex(workflow.current_stage)]_vars

\* C5: once the page has rendered with its effects run, every open socket
\* of the page has had the subscribe_workflow frame for workflowId sent
\* over it.
C5_OpenSocketIsSubscribed ==
  (mounted /\ committed /\ ~dirty) =>
    \A s \in Sockets : sock[s] = "open" => s \in subscribeSent

\* C9: the Processing page calls navigate to the results only on a status
\* response or a pushed update whose status is completed (never processing
\* or error), and the Dashboard links a recent workflow to its results
\* exactly when its status is completed and to its processing page otherwise.
C9_ResultsOnlyWhenCompleted ==
  /\ \A c \in navCauses : c[2] = "completed"
  /\ Len(recentLinks) = Len(recentWorkflows)
  /\ \A i \in 1..Len(recentWorkflows) :
       LET w == recentWorkflows[i]
       IN /\ (w.status = "completed") <=>
               (recentLinks[i] = <<"results", w.workflow_id>>)
          /\ (w.status # "completed") <=>
               (recentLinks[i] = <<"processing", w.workflow_id>>)

C9_Witness ==
  /\ <<"fetch", "completed">> \in navCauses
  /\ <<"push", "completed">> \in navCauses
  /\ \E i \in 1..Len(recentLinks) : recentLinks[i][1] = "results"
  /\ \E i \in 1..Len(recentLinks) : recentLinks[i][1] = "processing"

(***************************************************************************)
(* Properties of the Upload page.                                          *)
(***************************************************************************)
QaExtensions == {<<"p", "d", "f">>, <<"d", "o", "c", "x">>, <<"d", "o", "c">>, <<"t", "x", "t">>}

BomExtensions == {<<"x", "l", "s", "x">>, <<"x", "l", "s">>, <<"c", "s", "v">>}

\* the name has a dot and the text after its last dot, lower-cased, is one
\* of exts
HasExtensionIn(name, exts) ==
  \E i \in 1..Len(name) :
    /\ name[i] = "."
    /\ \A j \in (i + 1)..Len(name) : name[j] # "."
    /\ toLowerCase(SubSeq(name, i + 1, Len(name))) \in exts

\* C10: a file handed to the QA document zone is accepted only if its name
\* has an extension in {pdf, docx, doc, txt}, one handed to the item list
\* zone only if its extension is in {xlsx, xls, csv}; a rejected file raises
\* an error toast and leaves the previous selection as it was.
C10_UploadRejectsUnsupported ==
  /\ lastSelect.handler = "qa" =>
       /\ toast.kind \in {"success", "error"}
       /\ toast.kind = "success" =>
            (qaDocument = lastSelect.file
               /\ HasExtensionIn(lastSelect.file, QaExtensions))
       /\ toast.kind = "error" => qaDocument = lastSelect.previous
  /\ lastSelect.handler = "bom" =>
       /\ toast.kind \in {"success", "error"}
       /\ toast.kind = "success" =>
            (supplierBom = lastSelect.file
               /\ HasExtensionIn(lastSelect.file, BomExtensions))
       /\ toast.kind = "error" => supplierBom = lastSelect.previous

\* C11: handleStartProcessing issues an upload request only when both files
\* are selected; the current workflow id changes, the page navigates to a
\* processing page and the backend creates a workflow only on an upload
\* that succeeded; and when no request is in flight (none issued, or the
\* last one settled) the uploading flag is false.
C11_NoWorkflowOnUploadError ==
  /\ [](upload.st \in {"none", "settled"} => ~uploading)
  /\ [][/\ (upload'.st = "requested" /\ upload.st # "requested") =>
            (/\ qaDocument # "null" /\ supplierBom # "null"
             /\ upload'.qa_document = qaDocument
             /\ upload'.supplier_bom = supplierBom)
        /\ (~BothSelected(qaDocument, supplierBom) /\ upload.st # "requested")
             => upload'.st # "requested"
        /\ (store'.currentWorkflowId # store.currentWorkflowId
              \/ uploadNav' # uploadNav) =>
            (/\ upload.st = "ok"
             /\ store'.currentWorkflowId = upload.workflow_id
             /\ uploadNav' = upload.workflow_id)
        /\ upload.st = "failed" =>
            (/\ store'.currentWorkflowId = store.currentWorkflowId
             /\ uploadNav' = uploadNav /\ created' = created)
        /\ created' # created => upload'.st = "ok"]_vars

C11_Witness ==
  /\ upload = [st |-> "settled", ok |-> FALSE]
  /\ toast = [kind |-> "error", text |-> "Please select both documents"]
  /\ ~uploading
  /\ qaDocument = "null"
  /\ store.currentWorkflowId = "null"

(***************************************************************************)
(* Properties of the classification table and the Results page.           *)
(***************************************************************************)
GreenLabels == {1, 2}
AmberLabels == {3, 9, 11, 12}
RedLabels == {4, 5, 6, 7, 8, 10, 13}

\* the tag the fixed table gives a label
TableTag(label) ==
  IF label \in GreenLabels THEN Green
  ELSE IF label \in AmberLabels THEN Amber
  ELSE IF label \in RedLabels THEN Red
  ELSE "none"

\* C12: the label to action-path mapping is total on 1..13: labels 1, 2 map
\* to green, 3, 9, 11, 12 to amber, 4, 5, 6, 7, 8, 10, 13 to red; the three
\* label sets are pairwise disjoint and cover 1..13; every classified match
\* record of a result set carries the tag of its label.
C12_LabelMappingTotal ==
  /\ \A l \in Labels :
       /\ ActionPathOf(l) \in {Green, Amber, Red}
       /\ (ActionPathOf(l) = Green) <=> (l \in GreenLabels)
       /\ (ActionPathOf(l) = Amber) <=> (l \in AmberLabels)
       /\ (ActionPathOf(l) = Red) <=> (l \in RedLabels)
  /\ GreenLabels \cap AmberLabels = {}
  /\ GreenLabels \cap RedLabels = {}
  /\ AmberLabels \cap RedLabels = {}
  /\ GreenLabels \cup AmberLabels \cup RedLabels = Labels
  /\ \A i \in 1..Len(matches) :
       ({"qa_classification_label", "qa_action_path"} \subseteq DOMAIN matches[i])
         => matches[i].qa_action_path =
              TableTag(matches[i].qa_classification_label)

C12_Witness ==
  /\ Len(matches) = 2
  /\ matches[1] = ClassifiedMatch(5)
  /\ matches[2] = ClassifiedMatch(12)

\* C13: every row the results table displays shows a classification label
\* and an action-path symbol that agree with the fixed table, also for a
\* record whose label or tag is absent and filled in by the defaults.
C13_DisplayedRowsAgreeWithTable ==
  \A i \in 1..Len(DisplayedRows) :
    DisplayedRows[i].icon = TableTag(DisplayedRows[i].label)

\* C14: once a result set is loaded the green, amber and red counts the
\* page shows sum to the number of its match records.
C14_CountsSumToLength ==
  results # NoResults => greenCount + amberCount + redCount = Len(matches)

\* the tag a filter value selects
SelectedTag(value) ==
  IF value = "green" THEN Green ELSE IF value = "amber" THEN Amber ELSE Red

\* the positions of the matches that carry the selected tag
SelectedPositions ==
  {i \in 1..Len(matches) :
     filterRAG = "all" \/
       ("qa_action_path" \in DOMAIN matches[i]
          /\ matches[i].qa_action_path = SelectedTag(filterRAG))}

\* the k-th smallest element of a set of numbers
NthOf(S, k) == CHOOSE i \in S : Cardinality({j \in S : j < i}) = k - 1

\* C15: the filtered list is exactly the matches of the fetched set that
\* carry the selected tag, in their original order (all of them for 'all'),
\* and a change of the filter issues no API request and leaves the fetched
\* result set unchanged.
C15_FilterIsPureView ==
  /\ [](/\ Len(filteredMatches) = Cardinality(SelectedPositions)
        /\ \A k \in 1..Len(filteredMatches) :
             filteredMatches[k] = matches[NthOf(SelectedPositions, k)])
  /\ [][filterRAG' # filterRAG =>
          (results' = results /\ apiCalls' = apiCalls
             /\ resultsReq' = resultsReq)]_vars

C15_Witness ==
  /\ filterRAG = "amber"
  /\ Len(matches) = 2
  /\ Len(filteredMatches) = 1
  /\ filteredMatches[1] = matches[2]

(***************************************************************************)
(* Properties of the CSV export.                                           *)
(***************************************************************************)
Exported == csvContent # <<"null">>

\* the lines of a text: the pieces between its line breaks
RECURSIVE LinesOf(_)
LinesOf(text) ==
  IF \A i \in 1..Len(text) : text[i] # "\n" THEN <<text>>
  ELSE LET nl == CHOOSE i \in 1..Len(text) :
                   text[i] = "\n" /\ \A j \in 1..(i - 1) : text[j] # "\n"
       IN <<SubSeq(text, 1, nl - 1)>>
            \o LinesOf(SubSeq(text, nl + 1, Len(text)))

\* a text starts with a prefix
StartsWith(text, prefix) ==
  Len(prefix) <= Len(text) /\ SubSeq(text, 1, Len(prefix)) = prefix

\* C16: the exported CSV text has exactly N+1 lines for a result set of N
\* match records: the header line, then one line per match in result
\* order (line k+1 starts with the serial number k).
C16_CsvHasOneLinePerMatch ==
  Exported =>
    LET lines == LinesOf(csvContent)
    IN /\ Len(lines) = Len(matches) + 1
       /\ StartsWith(lines[1], <<"\"", "S", ".">>)
       /\ \A k \in 1..Len(matches) :
            StartsWith(lines[k + 1], <<"\"">> \o ToStr(k) \o <<"\"">>)

\* Reading CSV text back: fields separated by commas, records by line
\* breaks; a field that starts with a double quote runs to its closing
\* double quote, a doubled double quote inside it standing for one.
\* the smallest element of a non-empty set of numbers
Least(S) == CHOOSE i \in S : \A j \in S : i <= j

QuotesIn(text, from, to) ==
  Cardinality({j \in from..to : text[j] = "\""})

\* the closing double quote of the quoted field opened at position i: the
\* first double quote after i that is not half of a doubled one
ClosingQuote(text, i) ==
  LET closers == {j \in (i + 1)..Len(text) :
                    /\ text[j] = "\""
                    /\ QuotesIn(text, i + 1, j) % 2 = 1
                    /\ (j = Len(text) \/ text[j + 1] # "\"")}
  IN IF closers = {} THEN Len(text) + 1 ELSE Least(closers)

\* the position of the first separator (comma or line break) at or after i
NextSeparator(text, i) ==
  LET seps == {j \in i..Len(text) : text[j] \in {",", "\n"}}
  IN IF seps = {} THEN Len(text) + 1 ELSE Least(seps)

\* a quoted field's content with every doubled double quote made one
RECURSIVE Undouble(_)
Undouble(content) ==
  LET pairs == {j \in 1..(Len(content) - 1) :
                  content[j] = "\"" /\ content[j + 1] = "\""}
  IN IF pairs = {} THEN content
     ELSE SubSeq(content, 1, Least(pairs))
            \o Undouble(SubSeq(content, Least(pairs) + 2, Len(content)))

\* the fields from position i on, added to record and records
RECURSIVE ParseFrom(_, _, _, _)
ParseFrom(text, i, record, records) ==
  LET quoted == i <= Len(text) /\ text[i] = "\""
      close == IF quoted THEN ClosingQuote(text, i) ELSE i - 1
      sep == NextSeparator(text, close + 1)
      field == IF quoted
               THEN Undouble(SubSeq(text, i + 1, close - 1))
                      \o SubSeq(text, close + 1, sep - 1)
               ELSE SubSeq(text, i, sep - 1)
  IN IF sep > Len(text) THEN records \o <<record \o <<field>>>>
     ELSE IF text[sep] = ","
     THEN ParseFrom(text, sep + 1, record \o <<field>>, records)
     ELSE ParseFrom(text, sep + 1, <<>>, records \o <<record \o <<field>>>>)

ParseCsv(text) == ParseFrom(text, 1, <<>>, <<>>)

\* C17: re-parsing the exported CSV recovers, for every match record, the
\* qa_material_name, part_number and confidence_score the record held (the
\* score from the percentage of the Match Confidence column).
C17_CsvRoundTrip ==
  Exported =>
    LET parsed == ParseCsv(csvContent)
    IN /\ Len(parsed) = Len(matches) + 1
       /\ \A k \in 1..Len(matches) :
            /\ Len(parsed[k + 1]) >= 18
            /\ parsed[k + 1][2] = matches[k].qa_material_name
            /\ parsed[k + 1][6] = matches[k].part_number
            /\ \E percent \in 0..100 :
                 /\ parsed[k + 1][18] = ToStr(percent) \o <<"%">>
                 /\ percent * 10 = matches[k].confidence_score

\* the cell values of the export: the header row, then the rows
ExportCells == <<csvHeaders>> \o csvRows(matches)

\* the sum of Len(cell) + 3 over the first n cells of a row: each cell
\* with its two double quotes and the separator after it
RECURSIVE Span(_, _)
Span(row, n) ==
  IF n = 0 THEN 0 ELSE Span(row, n - 1) + Len(row[n]) + 3

\* the position in the text of the opening double quote of cell c of row r
RECURSIVE RowStart(_)
RowStart(r) ==
  IF r = 1 THEN 1
  ELSE RowStart(r - 1) + Span(ExportCells[r - 1], Len(ExportCells[r - 1]))

CellStart(r, c) == RowStart(r) + Span(ExportCells[r], c - 1)

HasComma(cell) == \E i \in 1..Len(cell) : cell[i] = ","

\* C18: every cell of the export whose value contains a comma stands in
\* the CSV text enclosed in double quotes.
C18_CommaCellsAreQuoted ==
  Exported =>
    \A r \in 1..Len(ExportCells) : \A c \in 1..Len(ExportCells[r]) :
      HasComma(ExportCells[r][c]) =>
        LET cell == ExportCells[r][c]
            at == CellStart(r, c)
        IN /\ at + Len(cell) + 1 <= Len(csvContent)
           /\ csvContent[at] = "\""
           /\ SubSeq(csvContent, at + 1, at + Len(cell)) = cell
           /\ csvContent[at + Len(cell) + 1] = "\""

C18_Witness ==
  /\ Exported
  /\ Len(matches) = 2
  /\ HasComma(matches[2].qa_material_name)

\* C19: whatever the field values of the match records, the exported CSV
\* parses into one record per match after the header, each with exactly
\* as many fields as the header (19) in the header's column order.
C19_CsvRowsHaveHeaderColumns ==
  Exported =>
    LET parsed == ParseCsv(csvContent)
    IN /\ Len(parsed) = Len(matches) + 1
       /\ parsed[1] = csvHeaders
       /\ Len(csvHeaders) = 19
       /\ \A k \in 1..Len(matches) :
            /\ Len(parsed[k + 1]) = Len(csvHeaders)
            /\ parsed[k + 1][1] = ToStr(k)
            /\ parsed[k + 1][19] = matches[k].reasoning

\* the message last received is an update of the page's own workflow
OwnUpdate(message) ==
  /\ message.type = "autonomous_workflow_update"
  /\ message.workflow_id = workflowId

\* C20: the Processing page applies a pushed message only if its type is
\* autonomous_workflow_update and its workflow_id is the page's own: a step
\* that receives any other message leaves the displayed workflow and the
\* store as they were, raises no toast and sets no navigation timer nor
\* navigates, and a timer is only ever set on receiving a completed update
\* of the page's own workflow.
C20_OnlyOwnUpdatesApplied ==
  [][/\ (lastMessage' # lastMessage /\ ~OwnUpdate(lastMessage')) =>
          /\ workflow' = workflow
          /\ store' = store
          /\ toast' = toast
          /\ navTimers' = navTimers
          /\ navCauses' = navCauses
     /\ (mounted /\ Len(navTimers') > Len(navTimers)) =>
          /\ OwnUpdate(lastMessage')
          /\ lastMessage'.status = "completed"
          /\ toast'.kind = "success"]_vars

C20_Witness ==
  /\ lastMessage.type = "autonomous_workflow_update"
  /\ lastMessage.workflow_id = "W2"
  /\ lastMessage.status = "completed"
  /\ mounted
  /\ workflow = NoWorkflow
  /\ toast = NoToast
  /\ navTimers = <<>>
  /\ navCauses = {}

\* C21: getStageStatus mirrors the workflow state machine: with no workflow
\* loaded every stage is idle; for a processing workflow whose current_stage
\* is the i-th stage, the stages before i are completed, stage i is
\* processing and the later ones idle, so exactly one stage is processing;
\* with status completed all four stages are completed and with status
\* error all four are error.
C21_StageStatusMirrorsWorkflow ==
  LET shown == [i \in 1..Len(stages) |-> getStageStatus(stages[i])]
  IN /\ Len(stages) = 4
     /\ workflow = NoWorkflow => \A i \in 1..4 : shown[i] = "idle"
     /\ workflow # NoWorkflow =>
          /\ workflow.status = "completed" =>
               \A i \in 1..4 : shown[i] = "completed"
          /\ workflow.status = "error" => \A i \in 1..4 : shown[i] = "error"
          /\ \A c \in 1..4 :
               (workflow.status = "processing" /\
                workflow.current_stage = stages[c]) =>
                 /\ \A i \in 1..4 :
                      shown[i] = IF i < c THEN "completed"
                                 ELSE IF i = c THEN "processing"
                                 ELSE "idle"
                 /\ Cardinality({i \in 1..4 : shown[i] = "processing"}) = 1

C21_Witness ==
  /\ workflow # NoWorkflow
  /\ workflow.status = "processing"
  /\ workflow.current_stage = "supplier_bom"
  /\ getStageStatus("extraction") = "completed"
  /\ getStageStatus("supplier_bom") = "processing"
  /\ getStageStatus("comparison") = "idle"

\* C22: an UPDATE_WORKFLOW for workflow id W changes only the entry of W:
\* every other workflow's entry and the store's other fields
\* (currentWorkflowId, agentStats, loading, error) stay as they were, the
\* fields of W's entry that are absent from the payload keep their previous
\* values and the fields of the payload take the payload's values.
C22_UpdateTouchesOnlyItsWorkflow ==
  [][\A a \in StoreActions :
       (a.type = "UPDATE_WORKFLOW" /\ store' = workflowReducer(store, a)) =>
         LET W == a.payload.workflow_id
             before == store.workflows
             after == store'.workflows
         IN /\ DOMAIN after = DOMAIN before \cup {W}
            /\ \A k \in DOMAIN before \ {W} : after[k] = before[k]
            /\ store'.currentWorkflowId = store.currentWorkflowId
            /\ store'.agentStats = store.agentStats
            /\ store'.loading = store.loading
            /\ store'.error = store.error
            /\ \A f \in DOMAIN a.payload : after[W][f] = a.payload[f]
            /\ W \in DOMAIN before =>
                 \A f \in DOMAIN before[W] \ DOMAIN a.payload :
                   f \in DOMAIN after[W] /\ after[W][f] = before[W][f]]_vars

C22_Witness ==
  /\ DOMAIN store.workflows = {"W1", "W2"}
  /\ store.workflows["W1"].status = "error"
  /\ DOMAIN store.workflows["W1"] =
       {"workflow_id", "status", "progress", "current_stage", "message",
        "created_at"}
  /\ store.workflows["W1"].created_at = 1
  /\ store.workflows["W2"].status = "completed"
  /\ store.currentWorkflowId = "W2"
  /\ store.loading

\* C30: after any sequence of workflow-store actions every key of the
\* workflows map equals the workflow_id field of the entry stored under it,
\* and an action of unknown type leaves the whole store unchanged.
C30_StoreKeysAreWorkflowIds ==
  /\ \A k \in DOMAIN store.workflows :
       /\ "workflow_id" \in DOMAIN store.workflows[k]
       /\ store.workflows[k].workflow_id = k
  /\ \A a \in StoreActions :
       a.type \notin {"SET_LOADING", "SET_ERROR", "CLEAR_ERROR",
                      "SET_CURRENT_WORKFLOW", "UPDATE_WORKFLOW",
                      "SET_WORKFLOWS", "SET_AGENT_STATS"} =>
         workflowReducer(store, a) = store

C30_Witness ==
  /\ DOMAIN store.workflows = {"W2"}
  /\ store.workflows["W2"].status = "error"
  /\ "created_at" \in DOMAIN store.workflows["W2"]
  /\ store.error = "Upload failed"

\* the whole number a text of digits followed by % stands for, -1 when the
\* text has another form
RECURSIVE DigitsValue(_)
DigitsValue(text) ==
  IF text = <<>> THEN 0
  ELSE IF \E d \in 1..10 : Digits[d] = text[Len(text)]
  THEN LET rest == DigitsValue(SubSeq(text, 1, Len(text) - 1))
       IN IF rest < 0 THEN -1
          ELSE 10 * rest +
                 (CHOOSE d \in 1..10 : Digits[d] = text[Len(text)]) - 1
  ELSE -1

PercentValue(text) ==
  IF Len(text) >= 2 /\ text[Len(text)] = "%"
  THEN DigitsValue(SubSeq(text, 1, Len(text) - 1))
  ELSE -1

\* C23: every match record is presented with zero or one supplier item:
\* the table row and the exported CSV row show the record's supplier item
\* exactly when its confidence_score is greater than 0 and a no-match text
\* otherwise, and for a confidence_score in [0,1] the match confidence
\* shown is a whole percentage between 0 and 100.
C23_SupplierShownIffScorePositive ==
  /\ \A k \in 1..Len(matches) :
       LET m == matches[k]
           cell == supplierMatchCell(m)
       IN IF m.confidence_score > 0
          THEN /\ "description" \in DOMAIN cell
               /\ cell.description = m.supplier_description
               /\ cell.percent \in 0..100
          ELSE cell = [text |-> "No match found"]
  /\ Exported =>
       \A k \in 1..Len(matches) :
         LET m == matches[k]
             row == ExportCells[k + 1]
         IN /\ IF m.confidence_score > 0
               THEN row[17] = m.supplier_description
               ELSE row[17] = <<"N", "o", " ", "M", "a", "t", "c", "h">>
            /\ PercentValue(row[18]) \in 0..100

C23_Witness ==
  /\ Exported
  /\ Len(matches) = 1
  /\ matches[1].confidence_score = 0
  /\ "supplier_description" \in DOMAIN matches[1]
  /\ ExportCells[2][17] = <<"N", "o", " ", "M", "a", "t", "c", "h">>
  /\ ExportCells[2][18] = <<"0", "%">>

C25_ClosedSocketIsInert ==
  [][\A s \in Sockets :
       (sock[s] \in {"closing", "aborting"} /\ sock'[s] = "closed") =>
         /\ isConnected' = isConnected
         /\ timerRef' = timerRef
         /\ orphanTimers' = orphanTimers]_vars

\* C26: in every reachable state of the hook, isConnected is true only if
\* the socket held in ws.current is open, and at most one socket the hook
\* created is connecting or open.
C26_ConnectedMeansCurrentOpen ==
  /\ isConnected => (wsCurrent # 0 /\ sock[wsCurrent] = "open")
  /\ Cardinality({s \in Sockets : sock[s] \in {"connecting", "open"}}) <= 1

\* C27: no two simultaneously open sockets of the client use the same
\* client identifier, so that a registry keyed by client identifier holds
\* one entry per open connection.
C27_OpenSocketsHaveDistinctClientIds ==
  \A s, t \in Sockets :
    (s # t /\ sock[s] = "open" /\ sock[t] = "open") =>
      ClientIdOf(s) # ClientIdOf(t)

\* C28: reconnection is bounded: the attempt counter returns to 0 on every
\* successful open, and at most 5 consecutive reconnect attempts are made
\* without an intervening open.
C28_AtMostFiveReconnectAttempts ==
  attempts <= MaxReconnectAttempts

\* C29: a received frame that is not valid JSON is discarded: the call of
\* ws.onmessage leaves lastMessage, isConnected and error unchanged, does
\* not invoke onMessage (the workflow state, the store, the toast and the
\* navigation timers stay as they were) and leaves every socket in its
\* state, so the connection stays open for later frames.
C29_NonJsonFrameDiscarded ==
  [][(lastFrame'.seq # lastFrame.seq /\ ~lastFrame'.json) =>
       /\ lastMessage' = lastMessage
       /\ isConnected' = isConnected
       /\ wsError' = wsError
       /\ ~lastFrame'.onMessage
       /\ workflow' = workflow
       /\ store' = store
       /\ toast' = toast
       /\ navTimers' = navTimers
       /\ sock' = sock
       /\ \E s \in Sockets : sock'[s] = "open"]_vars

C29_Witness ==
  /\ ~lastFrame.json
  /\ lastFrame.seq = 1
  /\ lastMessage = NoMessage
  /\ isConnected
  /\ \E s \in Sockets : sock[s] = "open"

====
